---- MODULE Spec2Model ----
(***************************************************************************)
(* Model of `here` (Havsalt/here-rs): src/src/main.rs and src/src/fetch.rs. *)
(*                                                                         *)
(* One run of the program is modelled: argument values and the platform   *)
(* are fixed in Init, the environment (current directory, the `where`     *)
(* subprocess, the interactive prompt, the filesystem, the clipboard and  *)
(* the keyboard) answers nondeterministically inside the actions.         *)
(*                                                                         *)
(* Text is a sequence of one-character strings, so that replace, trim,    *)
(* split and format! are computed character by character.                 *)
(***************************************************************************)
EXTENDS Naturals, Sequences, FiniteSets

VARIABLES
    target_os,   \* cfg!(target_os = ...): "windows" or "linux"
    args,        \* the parsed Args
    pc,          \* position of main
    exit,        \* "running", "SUCCESS", "FAILURE" or "PANIC"
    path,        \* main's `path` (text of the PathBuf)
    visual,      \* main's `visual`
    stdout,      \* Option: captured standard output of the `where` subprocess
    searched,    \* the programs the `where` subprocess has run with, in order
    options,     \* Option: the options handed to Select::new
    answer,      \* Option: what prompt_skippable returned
    fs,          \* Option: what the filesystem answered about `path`
    reports,     \* error and warning lines printed, in order
    sinks        \* clipboard writes, path echoes and keyboard events, in order

vars == <<target_os, args, pc, exit, path, visual, stdout, searched, options,
          answer, fs, reports, sinks>>

----------------------------------------------------------------------------
\* Bounds of the model.

\* Largest number of lines the `where` subprocess prints.
MaxCandidates == 2

----------------------------------------------------------------------------
\* Option<T> as a sequence of length 0 or 1.

None == <<>>
Some(x) == <<x>>
IsSome(o) == o # <<>>
Unwrap(o) == o[1]

----------------------------------------------------------------------------
\* Text.

BS == "\\"
FS == "/"
QUOTE == "\""
CR == "\r"
LF == "\n"

\* char::is_whitespace, for the characters that occur
Whitespace == {" ", "\t", CR, LF}

\* str::replace with a one-character pattern
RECURSIVE replace(_, _, _)
replace(s, from, to) ==
    IF s = <<>> THEN <<>>
    ELSE (IF Head(s) = from THEN to ELSE <<Head(s)>>) \o replace(Tail(s), from, to)

RECURSIVE trim_start(_)
trim_start(s) ==
    IF s # <<>> /\ Head(s) \in Whitespace THEN trim_start(Tail(s)) ELSE s

RECURSIVE trim_end(_)
trim_end(s) ==
    IF s # <<>> /\ s[Len(s)] \in Whitespace
    THEN trim_end(SubSeq(s, 1, Len(s) - 1))
    ELSE s

\* str::trim
trim(s) == trim_end(trim_start(s))

\* str::contains with a one-character pattern
contains(s, c) == \E i \in 1..Len(s) : s[i] = c

\* str::split with a one-character pattern, collected
RECURSIVE split(_, _)
split(s, d) ==
    IF ~contains(s, d) THEN <<s>>
    ELSE LET i == CHOOSE k \in 1..Len(s) :
                      s[k] = d /\ \A j \in 1..(k - 1) : s[j] # d
         IN  <<SubSeq(s, 1, i - 1)>> \o split(SubSeq(s, i + 1, Len(s)), d)

\* format!("\"{}\"", s)
quoted(s) == <<QUOTE>> \o s \o <<QUOTE>>

----------------------------------------------------------------------------
\* Paths (std::path and path_clean), on the text of the path.

\* std::path::MAIN_SEPARATOR
MAIN_SEPARATOR(os) == IF os = "windows" THEN BS ELSE FS

\* std::path::is_separator
is_separator(os, c) == c = FS \/ (os = "windows" /\ c = BS)

\* Path::has_root (paths without a drive prefix)
has_root(os, p) == p # <<>> /\ is_separator(os, p[1])

\* The components between separators, empty ones dropped (Path::components
\* without the RootDir component).
RECURSIVE components(_, _)
components(os, p) ==
    IF p = <<>> THEN <<>>
    ELSE IF is_separator(os, Head(p)) THEN components(os, Tail(p))
    ELSE LET seps == {k \in 1..Len(p) : is_separator(os, p[k])}
             n == IF seps = {} THEN Len(p)
                  ELSE (CHOOSE k \in seps : \A j \in seps : k <= j) - 1
         IN  <<SubSeq(p, 1, n)>> \o components(os, SubSeq(p, n + 1, Len(p)))

\* The loop of path_clean::clean over the components: `out` is the stack,
\* `rooted` says whether RootDir is at its bottom.
RECURSIVE clean_loop(_, _, _)
clean_loop(comps, out, rooted) ==
    IF comps = <<>> THEN out
    ELSE LET c == Head(comps)
             rest == Tail(comps)
         IN  IF c = <<".">> THEN clean_loop(rest, out, rooted)
             ELSE IF c = <<".", ".">>
             THEN IF out = <<>>
                  THEN IF rooted THEN clean_loop(rest, out, rooted)
                       ELSE clean_loop(rest, Append(out, c), rooted)
                  ELSE IF out[Len(out)] = <<".", ".">>
                       THEN clean_loop(rest, Append(out, c), rooted)
                       ELSE clean_loop(rest, SubSeq(out, 1, Len(out) - 1), rooted)
             ELSE clean_loop(rest, Append(out, c), rooted)

\* Components collected into a PathBuf
RECURSIVE join_components(_, _)
join_components(os, comps) ==
    IF comps = <<>> THEN <<>>
    ELSE IF Len(comps) = 1 THEN comps[1]
    ELSE comps[1] \o <<MAIN_SEPARATOR(os)>> \o join_components(os, Tail(comps))

\* PathClean::clean
clean(os, p) ==
    LET rooted == has_root(os, p)
        out == clean_loop(components(os, p), <<>>, rooted)
    IN  IF rooted THEN <<MAIN_SEPARATOR(os)>> \o join_components(os, out)
        ELSE IF out = <<>> THEN <<".">>
        ELSE join_components(os, out)

\* Path::join
join(os, base, seg) ==
    IF has_root(os, seg) THEN seg
    ELSE IF base # <<>> /\ is_separator(os, base[Len(base)]) THEN base \o seg
    ELSE base \o <<MAIN_SEPARATOR(os)>> \o seg

RECURSIVE strip_trailing_separators(_, _)
strip_trailing_separators(os, p) ==
    IF Len(p) > 1 /\ is_separator(os, p[Len(p)])
    THEN strip_trailing_separators(os, SubSeq(p, 1, Len(p) - 1))
    ELSE p

RECURSIVE strip_last_component(_, _)
strip_last_component(os, p) ==
    IF p # <<>> /\ ~is_separator(os, p[Len(p)])
    THEN strip_last_component(os, SubSeq(p, 1, Len(p) - 1))
    ELSE p

\* Path::parent of a path that names a file
parent(os, p) ==
    strip_trailing_separators(os,
        strip_last_component(os, strip_trailing_separators(os, p)))

\* Path::display().to_string(): the text of the path
display(p) == p

----------------------------------------------------------------------------
\* Inputs and environment.

\* Values of the positional argument that are tried.
SearchNames == {<<>>, <<".">>, <<"x">>}

\* env::current_dir() of the run
cwd(os) == <<MAIN_SEPARATOR(os), "w">>

\* Paths the `where` command can print: one per line, absolute.
CandidatePaths == {<<BS, "a", BS, "x">>, <<BS, "b", BS, "x">>}

\* What the `where` command found: up to MaxCandidates paths, in order.
WhereResults ==
    UNION {[1..n -> CandidatePaths] : n \in 0..MaxCandidates}

\* Standard output of `cmd /C where ...`: every path ends its line with CRLF.
RECURSIVE where_stdout(_)
where_stdout(found) ==
    IF found = <<>> THEN <<>>
    ELSE Head(found) \o <<CR, LF>> \o where_stdout(Tail(found))

\* What a symlink's link text is (fs::read_link): relative, forward slash.
LinkTarget == <<"t", FS, "y">>

\* Args as clap hands them over: the requires/conflicts_with relations of the
\* #[arg(...)] attributes hold.
ArgsValid(a) ==
    /\ a.where_search => IsSome(a.path_segment_or_program_search)
    /\ ~(a.posix_style /\ a.no_posix_style)
    /\ a.select_first_option => a.where_search
    /\ (a.generate_completions \/ a.generate_markdown) =>
          /\ ~(a.generate_completions /\ a.generate_markdown)
          /\ ~a.folder_component /\ ~a.where_search /\ ~a.change_directory
          /\ ~a.escape_backslash /\ ~a.wrap_quote /\ ~a.resolve_symlink
          /\ ~a.no_copy /\ ~a.no_color /\ ~a.posix_style /\ ~a.no_posix_style
          /\ ~a.select_first_option
          /\ a.path_segment_or_program_search = None

Args ==
    {a \in [path_segment_or_program_search : {None} \cup {Some(n) : n \in SearchNames},
            folder_component : BOOLEAN,
            where_search : BOOLEAN,
            change_directory : BOOLEAN,
            escape_backslash : BOOLEAN,
            wrap_quote : BOOLEAN,
            resolve_symlink : BOOLEAN,
            no_copy : BOOLEAN,
            no_color : BOOLEAN,
            posix_style : BOOLEAN,
            no_posix_style : BOOLEAN,
            select_first_option : BOOLEAN,
            generate_completions : BOOLEAN,
            generate_markdown : BOOLEAN] : ArgsValid(a)}

\* One printed error or warning line.
Report(label, text, subject, a) ==
    [label |-> label, text |-> text, subject |-> subject, colored |-> ~a.no_color]

\* One use of an output sink.
Sink(name, text, flag) == [sink |-> name, text |-> text, flag |-> flag]

----------------------------------------------------------------------------
\* fetch.rs

\* The text the candidates are read from: trimmed, carriage returns removed.
captured_text(out) == replace(trim(out), CR, <<>>)

\* One way a call of string_path_from_search can end.
SearchEnd(ret, value, srch, out, opts, ans) ==
    [ret |-> ret, value |-> value, searched |-> srch, stdout |-> out,
     options |-> opts, answer |-> ans]

\* Select::prompt_skippable on `opts`: an option, a skip, or an error.
PromptAnswers(opts) ==
    {[kind |-> "Some", value |-> opts[i]] : i \in 1..Len(opts)}
        \cup {[kind |-> "None", value |-> <<>>], [kind |-> "Err", value |-> <<>>]}

\* select_path with the last option taken under select_first_option.
select_path_last(out, select_first_option, program) ==
    LET text == captured_text(out)
        opts == split(text, LF)
    IN  IF contains(text, LF)
        THEN IF select_first_option
             THEN {SearchEnd("Ok", opts[Len(opts)], <<program>>, Some(out), None, None)}
             ELSE {SearchEnd(IF ans.kind = "Some" THEN "Ok" ELSE "Err", ans.value,
                             <<program>>, Some(out), Some(opts), Some(ans))
                      : ans \in PromptAnswers(opts)}
        ELSE {SearchEnd("Ok", text, <<program>>, Some(out), None, None)}

\* select_path with a skipped or failed prompt returned as Ok of an empty string.
select_path_skip_ok(out, select_first_option, program) ==
    LET text == captured_text(out)
        opts == split(text, LF)
    IN  IF contains(text, LF)
        THEN IF select_first_option
             THEN {SearchEnd("Ok", opts[1], <<program>>, Some(out), None, None)}
             ELSE {SearchEnd("Ok", ans.value,
                             <<program>>, Some(out), Some(opts), Some(ans))
                      : ans \in PromptAnswers(opts)}
        ELSE {SearchEnd("Ok", text, <<program>>, Some(out), None, None)}

\* The part of string_path_from_search after the subprocess has returned.
select_path(out, select_first_option, program) ==
    LET text == captured_text(out)
        opts == split(text, LF)
    IN  IF contains(text, LF)
        THEN IF select_first_option
             THEN {SearchEnd("Ok", opts[1], <<program>>, Some(out), None, None)}
             ELSE {SearchEnd(IF ans.kind = "Some" THEN "Ok" ELSE "Err", ans.value,
                             <<program>>, Some(out), Some(opts), Some(ans))
                      : ans \in PromptAnswers(opts)}
        ELSE {SearchEnd("Ok", text, <<program>>, Some(out), None, None)}

\* string_path_from_search: every way the call can end.  On a platform other
\* than Windows it is todo!(); the subprocess may fail to start (expect).
string_path_from_search(os, program, select_first_option) ==
    IF os # "windows"
    THEN {SearchEnd("panic", <<>>, <<>>, None, None, None)}
    ELSE {SearchEnd("panic", <<>>, <<>>, None, None, None)}
         \cup UNION {select_path(where_stdout(found), select_first_option, program)
                        : found \in WhereResults}

----------------------------------------------------------------------------
\* main.rs: the path manipulations and the styling, as functions of the
\* arguments and of what the filesystem answers.

\* What the filesystem can answer about the cleaned path.  A query that main
\* does not make is recorded as FALSE: exists() is asked under
\* resolve_symlink, is_symlink() if it exists, is_file() (of the path as it
\* stands then) under folder_component.  A path that does not exist is no file.
FsAnswers(a) ==
    {f \in [exists : BOOLEAN, is_symlink : BOOLEAN, is_file : BOOLEAN] :
        /\ f.exists => a.resolve_symlink
        /\ f.is_symlink => f.exists
        /\ f.is_file => a.folder_component
        /\ (f.is_file /\ a.resolve_symlink) => f.exists}

\* if args.resolve_symlink { ... }: the path and the warning printed
resolve_symlink(a, p, f) ==
    IF ~a.resolve_symlink THEN [path |-> p, reports |-> <<>>]
    ELSE IF f.exists
         THEN IF f.is_symlink
              THEN [path |-> LinkTarget, reports |-> <<>>]
              ELSE [path |-> p,
                    reports |-> <<Report("[Warning]", "is not a symlink", display(p), a)>>]
         ELSE [path |-> p,
               reports |-> <<Report("[Warning]", "does not exist", display(p), a)>>]

\* if args.folder_component & path.is_file() { path = path.parent() ... }
folder_component(os, a, p, f) ==
    IF a.folder_component /\ f.is_file THEN parent(os, p) ELSE p

\* if args.posix_style {...} else if args.no_posix_style {...}
separator_style(a, text) ==
    IF a.posix_style THEN replace(text, BS, <<FS>>)
    ELSE IF a.no_posix_style THEN replace(text, FS, <<BS>>)
    ELSE text

\* if args.wrap_quote {...}
wrap_quote(a, text) == IF a.wrap_quote THEN quoted(text) ELSE text

\* if args.escape_backslash {...}
escape_backslash(a, text) ==
    IF a.escape_backslash THEN replace(text, BS, <<BS, BS>>) ELSE text

\* styled with the backslashes escaped first and the separators styled last.
styled_escape_first(a, text) ==
    separator_style(a, wrap_quote(a, escape_backslash(a, text)))

\* "Apply styling options": `visual` as it is handed to the sinks
styled(a, text) == escape_backslash(a, wrap_quote(a, separator_style(a, text)))

\* cd_command with the display string typed instead of the path.
cd_command_visual(p) == <<"c", "d", " ">> \o quoted(visual)

\* format!("cd {quoted_path}") with quoted_path = format!("\"{}\"", path.display())
cd_command(p) == <<"c", "d", " ">> \o quoted(display(p))

\* after_styling with the clipboard written whatever no_copy says.
after_styling_always_copy(a) == "clipboard"

\* after_styling with the clipboard write left out.
after_styling_never_copy(a) == "echo"

\* Where main goes after the styling, and after the echo.
after_styling(a) == IF ~a.no_copy THEN "clipboard" ELSE "echo"
after_echo(a) == IF a.change_directory THEN "keys" ELSE "done"

----------------------------------------------------------------------------
\* The run.

Init ==
    /\ target_os \in {"windows", "linux"}
    /\ args \in Args
    /\ pc = "start"
    /\ exit = "running"
    /\ path = <<>>
    /\ visual = <<>>
    /\ stdout = None
    /\ searched = <<>>
    /\ options = None
    /\ answer = None
    /\ fs = None
    /\ reports = <<>>
    /\ sinks = <<>>

\* main returns or panics.
Return(code) == pc' = "done" /\ exit' = code

\* "Generate completions and markdown help page", then ExitCode::SUCCESS.
Generate ==
    /\ pc = "start"
    /\ args.generate_completions \/ args.generate_markdown
    /\ Return("SUCCESS")
    /\ UNCHANGED <<target_os, args, path, visual, stdout, searched, options,
                   answer, fs, reports, sinks>>

\* could_not_find with the test for an empty result left out.
could_not_find_never(string_path) == FALSE

\* if string_path.is_empty() { ... "Could not find" ... }
could_not_find(string_path) == string_path = <<>>

\* `let mut path = if args.where_search { ... }`: the search, and main's
\* match on its result.
ResolveSearch ==
    /\ pc = "start"
    /\ ~(args.generate_completions \/ args.generate_markdown)
    /\ args.where_search
    /\ UNCHANGED <<target_os, args, visual, fs, sinks>>
    /\ IF args.path_segment_or_program_search = None
       THEN /\ Return("FAILURE")
            /\ reports' = Append(reports,
                   Report("[Error]", "Argument [PROGRAM SEARCH] is required", <<>>, args))
            /\ UNCHANGED <<path, stdout, searched, options, answer>>
       ELSE LET search_name == Unwrap(args.path_segment_or_program_search)
            IN  \E r \in string_path_from_search(target_os, search_name,
                                                args.select_first_option) :
                   /\ stdout' = r.stdout
                   /\ searched' = searched \o r.searched
                   /\ options' = r.options
                   /\ answer' = r.answer
                   /\ IF r.ret = "panic"
                      THEN Return("PANIC") /\ UNCHANGED <<path, reports>>
                      ELSE IF r.ret = "Err"
                      THEN Return("FAILURE") /\ UNCHANGED <<path, reports>>
                      ELSE IF could_not_find(r.value)
                      THEN /\ Return("FAILURE")
                           /\ reports' = Append(reports,
                                  Report("[Error]", "Could not find", search_name, args))
                           /\ UNCHANGED path
                      ELSE /\ path' = r.value
                           /\ pc' = "resolved"
                           /\ UNCHANGED <<exit, reports>>

\* `... else { current_dir().expect(..).join(segment) }`
ResolveCwd ==
    /\ pc = "start"
    /\ ~(args.generate_completions \/ args.generate_markdown)
    /\ ~args.where_search
    /\ UNCHANGED <<target_os, args, visual, stdout, searched, options, answer,
                   fs, reports, sinks>>
    /\ \E found \in BOOLEAN :
          IF found
          THEN LET segment == IF IsSome(args.path_segment_or_program_search)
                              THEN Unwrap(args.path_segment_or_program_search)
                              ELSE <<".">>
               IN  /\ path' = join(target_os, cwd(target_os), segment)
                   /\ pc' = "resolved"
                   /\ UNCHANGED exit
          ELSE Return("PANIC") /\ UNCHANGED path

\* "Apply path manipulations" and "Apply styling options".
Transform ==
    /\ pc = "resolved"
    /\ \E f \in FsAnswers(args) :
          LET r == resolve_symlink(args, clean(target_os, path), f)
              p == folder_component(target_os, args, r.path, f)
          IN  /\ fs' = Some(f)
              /\ reports' = reports \o r.reports
              /\ path' = p
              /\ visual' = styled(args, display(p))
    /\ pc' = after_styling(args)
    /\ UNCHANGED <<target_os, args, exit, stdout, searched, options, answer, sinks>>

\* cli_clipboard::set_contents(visual).expect("clipboard opened successfully")
ClipboardWrite ==
    /\ pc = "clipboard"
    /\ \E ok \in BOOLEAN :
          /\ sinks' = Append(sinks, Sink("clipboard", visual, ok))
          /\ IF ok THEN pc' = "echo" /\ UNCHANGED exit ELSE Return("PANIC")
    /\ UNCHANGED <<target_os, args, path, visual, stdout, searched, options,
                   answer, fs, reports>>

\* println!("{}", visual) or println!("{}", visual.salmon()); without
\* change_directory main then returns ExitCode::SUCCESS.
Echo ==
    /\ pc = "echo"
    /\ sinks' = Append(sinks, Sink("echo", visual, ~args.no_color))
    /\ pc' = after_echo(args)
    /\ exit' = IF after_echo(args) = "done" THEN "SUCCESS" ELSE exit
    /\ UNCHANGED <<target_os, args, path, visual, stdout, searched, options,
                   answer, fs, reports>>

\* if args.change_directory { ... }, then ExitCode::SUCCESS.  Enigo::new is
\* unwrapped; the results of text() and key() are dropped.
ChangeDirectory ==
    /\ pc = "keys"
    /\ \E enigo \in BOOLEAN :
          IF enigo
          THEN /\ \E typed \in BOOLEAN, pressed \in BOOLEAN :
                     sinks' = sinks \o <<Sink("text", cd_command(path), typed),
                                         Sink("key", <<"Return">>, pressed)>>
               /\ Return("SUCCESS")
          ELSE Return("PANIC") /\ UNCHANGED sinks
    /\ UNCHANGED <<target_os, args, path, visual, stdout, searched, options,
                   answer, fs, reports>>

Next ==
    \/ Generate
    \/ ResolveSearch
    \/ ResolveCwd
    \/ Transform
    \/ ClipboardWrite
    \/ Echo
    \/ ChangeDirectory

Spec == Init /\ [][Next]_vars

TypeOK ==
    /\ pc \in {"start", "resolved", "clipboard", "echo", "keys", "done"}
    /\ exit \in {"running", "SUCCESS", "FAILURE", "PANIC"}
    /\ (pc = "done") = (exit # "running")

----------------------------------------------------------------------------
\* Vocabulary of the properties.

\* The search mode was asked for with a search term.
SearchMode == args.where_search /\ IsSome(args.path_segment_or_program_search)

\* The run has come to the output dispatch (the styling is done).
Dispatched == IsSome(fs)

\* The positions in `sinks` where sink `name` was used.
Uses(name) == {i \in 1..Len(sinks) : sinks[i].sink = name}

\* No clipboard write, path echo or keyboard event has happened.
NoSinkRan == sinks = <<>>

\* How often character c occurs in text s.
RECURSIVE Count(_, _)
Count(s, c) ==
    IF s = <<>> THEN 0 ELSE (IF Head(s) = c THEN 1 ELSE 0) + Count(Tail(s), c)

\* What the `where` command found, read back from its standard output.
FoundIn(out) == {found \in WhereResults : where_stdout(found) = out}

\* The "Could not find" error was printed.
SaidNotFound == \E i \in 1..Len(reports) : reports[i].text = "Could not find"

\* A symlink warning was printed.
Warned(text) ==
    \E i \in 1..Len(reports) :
        reports[i].label = "[Warning]" /\ reports[i].text = text

----------------------------------------------------------------------------
\* C1

\* What one character of the path text becomes in the display string when
\* the separators are styled first and the backslashes are doubled last.
C1_Char(a, c) ==
    LET sep == IF a.posix_style THEN (IF c = BS THEN FS ELSE c)
               ELSE IF a.no_posix_style THEN (IF c = FS THEN BS ELSE c)
               ELSE c
    IN  IF a.escape_backslash /\ sep = BS THEN <<BS, BS>> ELSE <<sep>>

RECURSIVE C1_Body(_, _)
C1_Body(a, text) ==
    IF text = <<>> THEN <<>> ELSE C1_Char(a, Head(text)) \o C1_Body(a, Tail(text))

\* C1: once the styling is done, the display string is the path text with
\* every character styled and then escaped, inside one pair of unescaped
\* double quotes under wrap_quote.  With no_posix_style and escape_backslash
\* every forward slash and every backslash of the path text has become two
\* backslashes; with wrap_quote and escape_backslash the display string has
\* exactly two quote characters more than the path text, its first and last.
C1_DisplayOrder ==
    Dispatched =>
        LET text == display(path)
            body == C1_Body(args, text)
        IN  /\ visual = IF args.wrap_quote THEN <<QUOTE>> \o body \o <<QUOTE>> ELSE body
            /\ (args.no_posix_style /\ args.escape_backslash) =>
                  /\ Count(visual, FS) = 0
                  /\ Count(visual, BS) = 2 * (Count(text, FS) + Count(text, BS))
            /\ (args.wrap_quote /\ args.escape_backslash) =>
                  /\ Count(visual, QUOTE) = Count(text, QUOTE) + 2
                  /\ visual[1] = QUOTE /\ visual[Len(visual)] = QUOTE

\* The path text t/y is shown as "t\\y" under no_posix_style, wrap_quote and
\* escape_backslash.
C1_Witness ==
    /\ Dispatched
    /\ args.no_posix_style /\ args.wrap_quote /\ args.escape_backslash
    /\ display(path) = <<"t", FS, "y">>
    /\ visual = <<QUOTE, "t", BS, BS, "y", QUOTE>>

----------------------------------------------------------------------------
\* C2

\* C2: in search mode with an empty search term or the term ".", the `where`
\* subprocess is never run, no sink is used, the run goes no further than
\* the search, and it does not end in success.
C2_InvalidTermRejected ==
    (SearchMode /\ Unwrap(args.path_segment_or_program_search) \in {<<>>, <<".">>}) =>
        /\ searched = <<>>
        /\ NoSinkRan
        /\ pc \in {"start", "done"}
        /\ exit # "SUCCESS"

----------------------------------------------------------------------------
\* C3

\* C3: a run without no_copy in which the clipboard write failed and which
\* has ended did not end at the clipboard write: it has echoed the display
\* string after it and, if it ended in success under change_directory, it
\* has emitted the keys.
C3_ClipboardFailureNotFatal ==
    (/\ ~args.no_copy
     /\ pc = "done"
     /\ \E i \in Uses("clipboard") : ~sinks[i].flag) =>
        /\ sinks[Len(sinks)].sink # "clipboard"
        /\ \E i \in Uses("echo") : sinks[i].text = visual
        /\ (args.change_directory /\ exit = "SUCCESS") => Uses("text") # {}

----------------------------------------------------------------------------
\* C4

\* C4: under no_copy the clipboard is never written and the display string
\* is never echoed twice; once the run is past the echo, it has been echoed
\* exactly once, as `visual`, colored unless no_color.
C4_NoCopyEchoOnce ==
    args.no_copy =>
        /\ Uses("clipboard") = {}
        /\ Cardinality(Uses("echo")) <= 1
        /\ (Dispatched /\ pc \in {"keys", "done"}) =>
              /\ Cardinality(Uses("echo")) = 1
              /\ \A i \in Uses("echo") :
                    sinks[i] = Sink("echo", visual, ~args.no_color)

\* A run under no_copy that ended in success with the echo as its only sink.
C4_Witness ==
    /\ args.no_copy /\ ~args.no_color
    /\ pc = "done" /\ exit = "SUCCESS"
    /\ sinks = <<Sink("echo", visual, TRUE)>>

----------------------------------------------------------------------------
\* C5

\* C5: when the search has resolved a path, from what `where` found: with
\* more than one candidate and select_first_option the path is the first
\* candidate and no prompt was made; with exactly one candidate the path is
\* that candidate and no prompt was made, whatever select_first_option is.
C5_SelectFirst ==
    (SearchMode /\ IsSome(stdout)) =>
        \A found \in FoundIn(Unwrap(stdout)) :
            /\ (Len(found) > 1 /\ args.select_first_option) =>
                  /\ pc # "start"
                  /\ options = None /\ answer = None
                  /\ pc = "resolved" => path = found[1]
                  /\ pc # "resolved" => Dispatched
            /\ Len(found) = 1 =>
                  /\ options = None /\ answer = None
                  /\ pc = "resolved" => path = found[1]
                  /\ pc # "resolved" => Dispatched

\* Two different candidates, select_first_option, the first one resolved.
C5_Witness ==
    /\ SearchMode /\ args.select_first_option
    /\ pc = "resolved"
    /\ IsSome(stdout)
    /\ \E found \in FoundIn(Unwrap(stdout)) :
          Len(found) = 2 /\ found[1] # found[2] /\ path = found[1]
    /\ options = None

----------------------------------------------------------------------------
\* C6

\* C6: when the `where` subprocess has printed no non-empty line, the run has
\* ended in failure with "Could not find" printed, no path was resolved (no
\* other mode was fallen into), no prompt was made and no sink was used.
C6_NotFound ==
    (/\ SearchMode
     /\ IsSome(stdout)
     /\ \A i \in 1..Len(Unwrap(stdout)) : Unwrap(stdout)[i] \in Whitespace) =>
        /\ pc = "done" /\ exit = "FAILURE"
        /\ SaidNotFound
        /\ path = <<>> /\ ~Dispatched
        /\ options = None
        /\ NoSinkRan

\* The search ran, found nothing, and the run ended in failure.
C6_Witness ==
    /\ SearchMode
    /\ searched = <<Unwrap(args.path_segment_or_program_search)>>
    /\ stdout = Some(<<>>)
    /\ pc = "done" /\ exit = "FAILURE"
    /\ SaidNotFound

----------------------------------------------------------------------------
\* C7

\* C7: a prompt is made only in search mode, without select_first_option,
\* on more than one option.  If it was skipped or failed, the run has ended
\* in failure, with no sink used, no path resolved and without the
\* "Could not find" error (which is how the not-found outcome shows); if an
\* option was picked, the resolved path is one of the options presented.
C7_PromptOutcome ==
    /\ IsSome(options) =>
          /\ SearchMode /\ ~args.select_first_option
          /\ Len(Unwrap(options)) > 1
          /\ IsSome(answer)
    /\ IsSome(answer) =>
          /\ IsSome(options)
          /\ Unwrap(answer).kind \in {"None", "Err"} =>
                /\ pc = "done" /\ exit = "FAILURE"
                /\ NoSinkRan /\ ~Dispatched /\ path = <<>>
                /\ ~SaidNotFound
          /\ Unwrap(answer).kind = "Some" =>
                /\ pc # "start"
                /\ pc = "resolved" =>
                      \E i \in 1..Len(Unwrap(options)) : path = Unwrap(options)[i]
                /\ pc # "resolved" => Dispatched
    /\ SaidNotFound => answer = None

\* The prompt was skipped and the run ended in failure, silently.
C7_Witness ==
    /\ IsSome(answer) /\ Unwrap(answer).kind = "None"
    /\ Len(Unwrap(options)) = 2
    /\ pc = "done" /\ exit = "FAILURE"
    /\ reports = <<>>

----------------------------------------------------------------------------
\* C8

\* C8: keyboard events are emitted only under change_directory, after the
\* echo; they are the text `cd "<path>"`, with the path as the manipulations
\* left it and not the display string, and then one Return key, and nothing
\* follows them.
C8_ChangeDirectoryCommand ==
    /\ (Uses("text") # {} \/ Uses("key") # {}) => args.change_directory
    /\ \A i \in Uses("text") :
          /\ sinks[i].text = <<"c", "d", " ", QUOTE>> \o path \o <<QUOTE>>
          /\ i + 1 = Len(sinks)
          /\ sinks[i + 1].sink = "key" /\ sinks[i + 1].text = <<"Return">>
    /\ Cardinality(Uses("text")) <= 1
    /\ Cardinality(Uses("key")) = Cardinality(Uses("text"))
    /\ (args.change_directory /\ pc = "done" /\ exit = "SUCCESS") =>
          Cardinality(Uses("text")) = 1

\* cd "t/y" was typed while the display string was "t\\y".
C8_Witness ==
    /\ args.change_directory /\ args.no_posix_style /\ args.escape_backslash
    /\ args.wrap_quote
    /\ pc = "done" /\ exit = "SUCCESS"
    /\ visual = <<QUOTE, "t", BS, BS, "y", QUOTE>>
    /\ \E i \in Uses("text") :
          sinks[i].text = <<"c", "d", " ", QUOTE, "t", FS, "y", QUOTE>>

----------------------------------------------------------------------------
\* C9

\* C9: under resolve_symlink, when the cleaned path is not an existing
\* symlink, one warning was printed, the path was not replaced by a link
\* target, and a run that has ended has echoed the display string and has
\* ended in success; the path is replaced only if it exists and is a symlink.
C9_SymlinkWarningNotFatal ==
    (args.resolve_symlink /\ Dispatched) =>
        LET f == Unwrap(fs)
        IN  /\ ~(f.exists /\ f.is_symlink) =>
                  /\ Warned(IF f.exists THEN "is not a symlink" ELSE "does not exist")
                  /\ path # LinkTarget
                  /\ pc = "done" => (exit = "SUCCESS" /\ Uses("echo") # {})
            /\ (f.exists /\ f.is_symlink) => ~Warned("is not a symlink")

----------------------------------------------------------------------------
\* C10

\* The place of a sink in the order clipboard, echo, keyboard text, key.
C10_Rank(name) ==
    CASE name = "clipboard" -> 1
      [] name = "echo" -> 2
      [] name = "text" -> 3
      [] name = "key" -> 4

\* C10: the sinks are used in the order clipboard, echo, keys, each at most
\* once: an echo made without no_copy has a successful clipboard write
\* before it, and keyboard events have the echo before them.
C10_SinkOrder ==
    /\ \A i, j \in 1..Len(sinks) :
          i < j => C10_Rank(sinks[i].sink) < C10_Rank(sinks[j].sink)
    /\ (Uses("echo") # {} /\ ~args.no_copy) =>
          \E i \in Uses("clipboard") : sinks[i].flag /\ \A j \in Uses("echo") : i < j
    /\ Uses("text") # {} =>
          \E i \in Uses("echo") : \A j \in Uses("text") : i < j

\* All three sinks were used, in order.
C10_Witness ==
    /\ Len(sinks) = 4
    /\ sinks[1].sink = "clipboard" /\ sinks[2].sink = "echo"
    /\ sinks[3].sink = "text" /\ sinks[4].sink = "key"
    /\ pc = "done" /\ exit = "SUCCESS"

====
